---- MODULE Spec2Model ----
(***************************************************************************)
(* Model of lista6-final/discs.py: removal of collisions between discs     *)
(* kept on a rectangular area (uncollide, push2area, process_list).        *)
(*                                                                         *)
(* Numbers.  The program computes in binary floating point: every          *)
(* multiplication, division and square root is rounded to the nearest     *)
(* representable value.  The model keeps that: a number is an integer      *)
(* count of 1/Q, sums and differences are exact, and products, quotients   *)
(* and square roots are rounded to the nearest multiple of 1/Q, ties to    *)
(* even.  A division by zero raises ZeroDivisionError, as in Python.       *)
(* The rounding unit 1/Q is far coarser than that of binary64 and, unlike  *)
(* there, halving rounds too: what the model shows of rounding is its      *)
(* kind, not its size.                                                     *)
(*                                                                         *)
(* Counters.  m and draws grow without bound in the program; the model     *)
(* counts them up to MaxM and MaxDraws and keeps them there.               *)
(***************************************************************************)
EXTENDS Integers, Sequences, FiniteSets

VARIABLES dlist,    \* the list of discs, a disc is <<<<x, y>>, r>>
          area,     \* <<<<x_0, x_m>>, <<y_0, y_m>>>>
          pc,       \* position of the running function
          ci,       \* process_list: index of the pair in combs
          di,       \* process_list: index of the disc in rng
          flag,     \* process_list: flag
          m,        \* process_list: m, the number of passes
          warned,   \* warn() was called
          err,      \* the exception that left the function, or "none"
          calls,    \* the calls made in the current pass, in order
          rets,     \* the values these calls returned
          ks,       \* the values uniform() returned in the last call
          draws,    \* number of uniform() calls so far
          dlist0    \* the list of discs on entry

vars == <<dlist, area, pc, ci, di, flag, m, warned, err, calls, rets, ks,
          draws, dlist0>>

(***************************************************************************)
(* Bounds of the model.                                                    *)
(***************************************************************************)
Q == 1000          \* representable numbers are the multiples of 1/Q
MaxM == 122        \* m is counted up to MaxM
MaxDraws == 3      \* draws is counted up to MaxDraws

WARN_LIMIT == 120

(***************************************************************************)
(* Rounded arithmetic.                                                     *)
(***************************************************************************)
Abs(a) == IF a < 0 THEN -a ELSE a

Min(a, b) == IF a < b THEN a ELSE b

\* Rounding is written with functions: their arguments are values.

\* nearest integer to a / b for a >= 0, b > 0, ties to even
RoundDivPos[a \in Nat, b \in Nat] ==
    LET q == a \div b
        r == a % b
    IN  IF 2 * r < b THEN q
        ELSE IF 2 * r > b THEN q + 1
        ELSE IF q % 2 = 0 THEN q ELSE q + 1

\* nearest integer to a / b, b # 0
RoundDiv[a \in Int, b \in Int] ==
    IF (a < 0) = (b < 0) THEN RoundDivPos[Abs(a), Abs(b)]
    ELSE -RoundDivPos[Abs(a), Abs(b)]

\* the number num / den as a count of 1/Q
Lit(num, den) == RoundDiv[num * Q, den]

\* a * b
Mul[a \in Int, b \in Int] == RoundDiv[a * b, Q]

\* a / b, b # 0
Div[a \in Int, b \in Int] == RoundDiv[a * Q, b]

\* the largest s in lo..hi with s * s <= n
FloorSqrt[n \in Nat, lo \in Nat, hi \in Nat] ==
    IF lo = hi THEN lo
    ELSE LET mid == (lo + hi + 1) \div 2
         IN  IF mid * mid <= n THEN FloorSqrt[n, mid, hi]
             ELSE FloorSqrt[n, lo, mid - 1]

\* a ** .5, a >= 0
Sqrt[a \in Nat] ==
    LET s == FloorSqrt[a * Q, 0, 46340]
    IN  IF a * Q - s * s <= s THEN s ELSE s + 1

(***************************************************************************)
(* Vectors and discs.                                                      *)
(***************************************************************************)
make_vec(x, y) == <<x, y>>

add_vec(vec1, vec2, c) ==
    <<vec1[1] + Mul[c, vec2[1]], vec1[2] + Mul[c, vec2[2]]>>

make_disc(x, y, r) == <<<<x, y>>, r>>

move_disc(disc, vec, c) ==
    <<<<disc[1][1] + Mul[c, vec[1]], disc[1][2] + Mul[c, vec[2]]>>, disc[2]>>

vec_len(vec) == Sqrt[Mul[vec[1], vec[1]] + Mul[vec[2], vec[2]]]

(***************************************************************************)
(* uniform(a, b): the values the model draws.                              *)
(***************************************************************************)
UNCOLLIDE_K == {Lit(1001, 1000), Lit(3, 2), Lit(2, 1)}

PUSH_K == {Lit(1, 1), Lit(3, 2), Lit(2, 1)}

(***************************************************************************)
(* uncollide(dlist, n1, n2) with k the value of uniform(1.001, 2).         *)
(* The result is the list after the call, the value returned, the          *)
(* exception raised and the values drawn.                                  *)
(***************************************************************************)
\* between = add_vec(dlist[n2][0], dlist[n1][0], -1)
between(dl, n1, n2) == add_vec(dl[n2][1], dl[n1][1], -Q)

r_sum_first(dl, n1, n2) == dl[n1][2]

\* r_sum = dlist[n1][1] + dlist[n2][1]
r_sum(dl, n1, n2) == dl[n1][2] + dl[n2][2]

collide_ge(rs, l) == rs >= l

\* if r_sum > l
collide(rs, l) == rs > l

factor_whole(x, l_mid) == Div[x, Mul[Q, l_mid]]

\* x / (2 * l_mid), 2 * l_mid # 0
factor(x, l_mid) == Div[x, Mul[2 * Q, l_mid]]

division_ignored(dl, k) ==
    [dlist |-> dl, ret |-> TRUE, err |-> "none", ks |-> <<k>>]

\* x / (2 * l_mid) with 2 * l_mid = 0: the exception leaves uncollide after
\* the draw and before the first move_disc
division_by_zero(dl, k) ==
    [dlist |-> dl, ret |-> FALSE, err |-> "ZeroDivisionError", ks |-> <<k>>]

uncollide(dl, n1, n2, k) ==
    LET btw   == between(dl, n1, n2)
        rs    == r_sum(dl, n1, n2)
        l     == vec_len(btw)
        mid   == <<Div[btw[1], 2 * Q], Div[btw[2], 2 * Q]>>
        x     == Mul[rs - l, k]
        l_mid == Div[l, 2 * Q]
    IN  IF collide(rs, l)
        THEN IF Mul[2 * Q, l_mid] = 0
             THEN division_by_zero(dl, k)
             ELSE [dlist |->
                     [dl EXCEPT
                        ![n1] = move_disc(dl[n1], mid, -factor(x, l_mid)),
                        ![n2] = move_disc(dl[n2], mid, factor(x, l_mid))],
                   ret |-> TRUE, err |-> "none", ks |-> <<k>>]
        ELSE [dlist |-> dl, ret |-> FALSE, err |-> "none", ks |-> <<>>]

(***************************************************************************)
(* push2area(dlist, n, area) with kx, ky the values of uniform(1, 2) on    *)
(* the x and on the y axis.                                                *)
(***************************************************************************)
\* dlist[n][0][a] - dlist[n][1] < area[a][0]
below(c, r, lo) == c - r < lo

above_centre(c, r, hi) == c > hi

\* dlist[n][0][a] + dlist[n][1] > area[a][1]
above(c, r, hi) == c + r > hi

\* area[a][0] + dlist[n][1] * uniform(1, 2)
pushed_up(lo, r, k) == lo + Mul[r, k]

pushed_down_plus(hi, r, k) == hi + Mul[r, k]

\* area[a][1] - dlist[n][1] * uniform(1, 2)
pushed_down(hi, r, k) == hi - Mul[r, k]

push2area(dl, n, ar, kx, ky) ==
    LET x == dl[n][1][1]
        y == dl[n][1][2]
        r == dl[n][2]
        lowx  == below(x, r, ar[1][1])
        highx == ~lowx /\ above(x, r, ar[1][2])
        lowy  == below(y, r, ar[2][1])
        highy == ~lowy /\ above(y, r, ar[2][2])
        nx == IF lowx THEN pushed_up(ar[1][1], r, kx)
              ELSE IF highx THEN pushed_down(ar[1][2], r, kx) ELSE x
        ny == IF lowy THEN pushed_up(ar[2][1], r, ky)
              ELSE IF highy THEN pushed_down(ar[2][2], r, ky) ELSE y
    IN  [dlist |-> [dl EXCEPT ![n] = <<<<nx, ny>>, r>>],
         ret   |-> lowx \/ highx \/ lowy \/ highy,
         ks    |-> (IF lowx \/ highx THEN <<kx>> ELSE <<>>)
                   \o (IF lowy \/ highy THEN <<ky>> ELSE <<>>)]

(***************************************************************************)
(* process_list(dlist, area), one step per call it makes.                  *)
(***************************************************************************)
RECURSIVE combsShort(_, _, _)
combsShort(n, i, j) ==
    IF i >= n THEN <<>>
    ELSE IF j >= n THEN combsShort(n, i + 1, i + 2)
    ELSE <<<<i, j>>>> \o combsShort(n, i, j + 1)

RECURSIVE combsFrom(_, _, _)
\* the pairs from <<i, j>> on, in the order of itertools.combinations
combsFrom(n, i, j) ==
    IF i >= n THEN <<>>
    ELSE IF j > n THEN combsFrom(n, i + 1, i + 2)
    ELSE <<<<i, j>>>> \o combsFrom(n, i, j + 1)

\* tuple(combinations(range(n), 2)), indices counted from 1
combinations(n) == combsFrom(n, 1, 2)

combs == combinations(Len(dlist))

\* tuple(range(n)), indices counted from 1
rng == [i \in 1..Len(dlist) |-> i]

\* where the pass continues after the loop over combs
AfterCombs == IF Len(rng) = 0 THEN "warn" ELSE "rng"

\* while flag: flag = False; m += 1
PassBegin ==
    /\ pc = "while"
    /\ flag
    /\ flag' = FALSE
    /\ m' = Min(m + 1, MaxM)
    /\ pc' = IF Len(combs) = 0 THEN AfterCombs ELSE "combs"
    /\ ci' = 1
    /\ di' = 1
    /\ calls' = <<>>
    /\ rets' = <<>>
    /\ UNCHANGED <<dlist, area, warned, err, ks, draws, dlist0>>

\* for i in combs: if uncollide(dlist, i[0], i[1]): flag = True
\* one call, uniform(1.001, 2) returning k if it is called
UncollideWith(k) ==
    /\ pc = "combs"
    /\ LET res == uncollide(dlist, combs[ci][1], combs[ci][2], k)
       IN  /\ dlist' = res.dlist
           /\ ks' = res.ks
           /\ draws' = Min(draws + Len(res.ks), MaxDraws)
           /\ err' = res.err
           /\ calls' = Append(calls, <<"uncollide", combs[ci]>>)
           /\ IF res.err # "none"
              THEN /\ pc' = "raised"
                   /\ UNCHANGED <<flag, rets, ci>>
              ELSE /\ flag' = (flag \/ res.ret)
                   /\ rets' = Append(rets, res.ret)
                   /\ ci' = ci + 1
                   /\ pc' = IF ci = Len(combs) THEN AfterCombs ELSE "combs"
    /\ UNCHANGED <<area, di, m, warned, dlist0>>

UncollideStep == \E k \in UNCOLLIDE_K : UncollideWith(k)

\* for i in rng: if push2area(dlist, i, area): flag = True
\* one call, uniform(1, 2) returning kx and ky if it is called
PushWith(kx, ky) ==
    /\ pc = "rng"
    /\ LET res == push2area(dlist, rng[di], area, kx, ky)
       IN  /\ dlist' = res.dlist
           /\ ks' = res.ks
           /\ draws' = Min(draws + Len(res.ks), MaxDraws)
           /\ flag' = (flag \/ res.ret)
           /\ calls' = Append(calls, <<"push2area", rng[di]>>)
           /\ rets' = Append(rets, res.ret)
    /\ di' = di + 1
    /\ pc' = IF di = Len(rng) THEN "warn" ELSE "rng"
    /\ UNCHANGED <<area, ci, m, warned, err, dlist0>>

PushStep == \E kx \in PUSH_K, ky \in PUSH_K : PushWith(kx, ky)

too_many_from_limit(n) == n >= WARN_LIMIT

\* if m > 120
too_many(n) == n > WARN_LIMIT

\* if m > 120: warn(WARNING_MSG, category=RuntimeWarning)
WarnCheck ==
    /\ pc = "warn"
    /\ warned' = (warned \/ too_many(m))
    /\ pc' = "while"
    /\ UNCHANGED <<dlist, area, ci, di, flag, m, err, calls, rets, ks,
                   draws, dlist0>>

\* the loop condition is false: process_list returns
Return ==
    /\ pc = "while"
    /\ ~flag
    /\ pc' = "done"
    /\ UNCHANGED <<dlist, area, ci, di, flag, m, warned, err, calls, rets,
                   ks, draws, dlist0>>

(***************************************************************************)
(* The lists and areas process_list is started on.                         *)
(***************************************************************************)
\* the state on entry of process_list(dl, ar)
Entry(dl, ar) ==
    /\ dlist = dl
    /\ area = ar
    /\ pc = "while"
    /\ ci = 1
    /\ di = 1
    /\ flag = TRUE
    /\ m = 0
    /\ warned = FALSE
    /\ err = "none"
    /\ calls = <<>>
    /\ rets = <<>>
    /\ ks = <<>>
    /\ draws = 0
    /\ dlist0 = dl

Square(w) == <<<<0, w>>, <<0, w>>>>

\* discs of radius 1 on the area of 6 x 6: tangent to the left edge,
\* overlapping, tangent to each other, coincident and apart
Small == {make_disc(x, 2 * Q, Q) : x \in {Q, 2 * Q, 3 * Q, 4 * Q}}
         \cup {make_disc(3 * Q, 3 * Q, Q)}

\* discs that cross an edge of the area, next to a disc that does not
Out == {make_disc(0, 2 * Q, Q), make_disc(6 * Q, 6 * Q, Q),
        make_disc(3 * Q, -Q, Q)}

\* three discs, the pairs overlapping in turn
Three == {<<make_disc(2 * Q, 2 * Q, Q), make_disc(3 * Q, 2 * Q, Q),
            make_disc(3 * Q, 4 * Q, Q)>>,
          <<make_disc(4 * Q, 2 * Q, Q), make_disc(2 * Q, 4 * Q, Q),
            make_disc(3 * Q, 4 * Q, Q)>>,
          <<make_disc(2 * Q, 2 * Q, Q), make_disc(4 * Q, 4 * Q, Q),
            make_disc(2 * Q, 3 * Q, Q)>>}

\* a disc wider than the area
Wide == {make_disc(3 * Q, 3 * Q, 4 * Q)}

Lists == UNION {[1..n -> Small] : n \in 0..2}
         \cup [1..1 -> Out]
         \cup {<<o, make_disc(3 * Q, 3 * Q, Q)>> : o \in Out}
         \cup Three
         \cup [1..1 -> Wide]

Init == \E dl \in Lists : Entry(dl, Square(6 * Q))

Next == PassBegin \/ UncollideStep \/ PushStep \/ WarnCheck \/ Return

Spec == Init /\ [][Next]_vars

(***************************************************************************)
(* process_list with every value of uniform() drawn again and again, on    *)
(* two small discs in the middle of a large area and on a disc wider than  *)
(* the area.                                                               *)
(***************************************************************************)
\* radii around 1 / sqrt(2): two such discs a diagonal step apart touch
NearHalf == {Lit(707, 1000), Lit(708, 1000)}

Sparse == {<<make_disc(7 * Q, 7 * Q, r1), make_disc(x, y, r2)>> :
             x \in {8 * Q}, y \in {7 * Q, 8 * Q},
             r1 \in {Lit(707, 1000)}, r2 \in NearHalf \cup {Q}}

InitLive ==
    \/ \E dl \in Sparse : Entry(dl, Square(15 * Q))
    \/ \E dl \in [1..1 -> Wide] : Entry(dl, <<<<0, 6 * Q>>, <<0, 15 * Q>>>>)

\* the program always takes its next step, and no value of uniform() stays
\* away for ever
Fairness ==
    /\ WF_vars(Next)
    /\ \A k \in UNCOLLIDE_K : SF_vars(UncollideWith(k))
    /\ \A k \in PUSH_K : SF_vars(\E ky \in PUSH_K : PushWith(k, ky))
    /\ \A k \in PUSH_K : SF_vars(\E kx \in PUSH_K : PushWith(kx, k))

LiveSpec == InitLive /\ [][Next]_vars /\ Fairness

(***************************************************************************)
(* One call of uncollide(dlist, 0, 1) on a list of two discs.              *)
(***************************************************************************)
\* centres on the grid of whole numbers, and one a single 1/Q off a grid
\* point
CU == {make_vec(x, y) : x \in {0, Q, 2 * Q, 3 * Q}, y \in {0, Q, 2 * Q}}
      \cup {make_vec(1, 0)}

RU == {0, Q, 2 * Q} \cup NearHalf

DiscsU == {<<c, r>> : c \in CU, r \in RU}

\* the state before the call of a function named f on dl and ar
Before(f, dl, ar) ==
    /\ dlist = dl
    /\ area = ar
    /\ pc = f
    /\ ci = 1
    /\ di = 1
    /\ flag = FALSE
    /\ m = 0
    /\ warned = FALSE
    /\ err = "none"
    /\ calls = <<>>
    /\ rets = <<>>
    /\ ks = <<>>
    /\ draws = 0
    /\ dlist0 = dl

InitU == \E dl \in [1..2 -> DiscsU] : Before("uncollide", dl, Square(6 * Q))

UncollideCall ==
    /\ pc = "uncollide"
    /\ \E k \in UNCOLLIDE_K :
         LET res == uncollide(dlist, 1, 2, k)
         IN  /\ dlist' = res.dlist
             /\ ks' = res.ks
             /\ draws' = Min(draws + Len(res.ks), MaxDraws)
             /\ err' = res.err
             /\ rets' = IF res.err = "none" THEN <<res.ret>> ELSE <<>>
             /\ pc' = IF res.err = "none" THEN "returned" ELSE "raised"
    /\ calls' = <<<<"uncollide", <<1, 2>>>>>>
    /\ UNCHANGED <<area, ci, di, flag, m, warned, dlist0>>

NextU == UncollideCall

SpecU == InitU /\ [][NextU]_vars

(***************************************************************************)
(* One call of push2area(dlist, 0, area) on a list of one disc.            *)
(***************************************************************************)
PS == {-Q, 0, Q, 2 * Q, 3 * Q, 4 * Q, 5 * Q, 6 * Q, 7 * Q}

DiscsP == {make_disc(x, y, r) : x \in PS, y \in PS, r \in {Q, 2 * Q}}

AreasP == {Square(5 * Q), Square(6 * Q), <<<<0, 6 * Q>>, <<Q, 5 * Q>>>>}

InitP == \E dl \in [1..1 -> DiscsP], ar \in AreasP :
             Before("push2area", dl, ar)

PushCall ==
    /\ pc = "push2area"
    /\ \E kx \in PUSH_K, ky \in PUSH_K :
         LET res == push2area(dlist, 1, area, kx, ky)
         IN  /\ dlist' = res.dlist
             /\ ks' = res.ks
             /\ draws' = Min(draws + Len(res.ks), MaxDraws)
             /\ rets' = <<res.ret>>
    /\ pc' = "returned"
    /\ calls' = <<<<"push2area", 1>>>>
    /\ UNCHANGED <<area, ci, di, flag, m, warned, err, dlist0>>

NextP == PushCall

SpecP == InitP /\ [][NextP]_vars

(***************************************************************************)
(* Notions the properties are stated in.  Distances are the distances      *)
(* vec_len computes.                                                       *)
(***************************************************************************)
Dist(d1, d2) == vec_len(<<d2[1][1] - d1[1][1], d2[1][2] - d1[1][2]>>)

NoOverlap(dl) ==
    \A i, j \in 1..Len(dl) : i # j => Dist(dl[i], dl[j]) >= dl[i][2] + dl[j][2]

Inside(d, ar) ==
    /\ ar[1][1] <= d[1][1] - d[2]
    /\ d[1][1] + d[2] <= ar[1][2]
    /\ ar[2][1] <= d[1][2] - d[2]
    /\ d[1][2] + d[2] <= ar[2][2]

AllInside(dl, ar) == \A i \in 1..Len(dl) : Inside(dl[i], ar)

Width(ar) == ar[1][2] - ar[1][1]

Height(ar) == ar[2][2] - ar[2][1]

Any(bs) == \E a \in 1..Len(bs) : bs[a]

LexLess(p, q) == p[1] < q[1] \/ (p[1] = q[1] /\ p[2] < q[2])

(***************************************************************************)
(* process_list                                                            *)
(***************************************************************************)
\* C1: when process_list has returned, the distance between the centres of
\* any two distinct discs is at least the sum of their radii.
C1_NoOverlapOnReturn == pc = "done" => NoOverlap(dlist)

C1_Witness == pc = "done" /\ Len(dlist) >= 2 /\ ~NoOverlap(dlist0)

\* C2: when process_list has returned, every disc lies within the area on
\* both axes.
C2_ContainedOnReturn == pc = "done" => AllInside(dlist, area)

C2_Witness == pc = "done" /\ ~AllInside(dlist0, area)

Resolved0 == NoOverlap(dlist0) /\ AllInside(dlist0, area)

\* C3: on a list that has no overlapping pair and no disc across an edge
\* (tangent discs included) process_list moves no disc, draws no random
\* number and stops after the first pass.
C3_Idempotent ==
    Resolved0 =>
        /\ dlist = dlist0
        /\ draws = 0
        /\ m <= 1
        /\ (pc = "while" /\ m = 1 => ~flag)
        /\ (pc = "done" => m = 1)

C3_Witness ==
    /\ pc = "done"
    /\ Resolved0
    /\ Len(dlist0) = 2
    /\ Dist(dlist0[1], dlist0[2]) = dlist0[1][2] + dlist0[2][2]
    /\ dlist0[1][1][1] - dlist0[1][2] = area[1][1]

NPairs == (Len(dlist) * (Len(dlist) - 1)) \div 2

\* the calls of the current pass are the pairs i < j in increasing order
\* (i, then j) followed by the indices in increasing order
C9_Order ==
    /\ Len(calls) <= NPairs + Len(dlist)
    /\ \A a \in 1..Len(calls) :
         IF a <= NPairs
         THEN /\ calls[a][1] = "uncollide"
              /\ calls[a][2][1] \in 1..Len(dlist)
              /\ calls[a][2][2] \in 1..Len(dlist)
              /\ calls[a][2][1] < calls[a][2][2]
              /\ (a > 1 => LexLess(calls[a - 1][2], calls[a][2]))
         ELSE calls[a] = <<"push2area", a - NPairs>>

C9_Flag ==
    /\ pc \in {"combs", "rng", "warn"} =>
         /\ Len(rets) = Len(calls)
         /\ flag = Any(rets)
    /\ pc \in {"warn", "done"} \/ (pc = "while" /\ m > 0) =>
         /\ Len(calls) = NPairs + Len(dlist)
         /\ Len(rets) = Len(calls)
         /\ flag = Any(rets)
    /\ pc = "done" => ~Any(rets)

C9_Step ==
    /\ pc = "while" /\ m > 0 /\ ~Any(rets) => pc' = "done"
    /\ pc = "while" /\ (m = 0 \/ Any(rets)) =>
         pc' # "done" /\ flag' = FALSE /\ calls' = <<>> /\ rets' = <<>>

\* C9: a pass calls uncollide once for every pair i < j in combination
\* order, then push2area once for every index in list order; flag is reset
\* when the pass starts and at its end tells whether a call returned True;
\* the loop is left at the end of the first pass whose calls all returned
\* False.
C9_PassOrder == [](C9_Order /\ C9_Flag) /\ [][C9_Step]_vars

C9_Witness == pc = "done" /\ Len(dlist) = 3 /\ m >= 2

C10_Step ==
    /\ pc = "warn" =>
         dlist' = dlist /\ flag' = flag /\ m' = m /\ pc' = "while"
    /\ pc = "while" /\ flag => pc' \in {"combs", "rng", "warn"}

\* C10: warn() is called only when m exceeds 120 and in every pass from the
\* 121st on; the call changes no disc and does not end the loop, which goes
\* on for as long as a pass changes something.
C10_Advisory ==
    /\ [](warned => m > WARN_LIMIT)
    /\ [](pc \in {"while", "done"} /\ m > WARN_LIMIT => warned)
    /\ [][C10_Step]_vars

C10_Witness == pc = "done" /\ warned

(***************************************************************************)
(* process_list, every draw of uniform() repeated                          *)
(***************************************************************************)
Oversized0 ==
    \E i \in 1..Len(dlist0) :
        2 * dlist0[i][2] > Width(area) \/ 2 * dlist0[i][2] > Height(area)

\* C7: when a disc is wider than the area, process_list ends with an error
\* and does not loop forever.
C7_Claim == Oversized0 ~> (pc = "raised")

Sparse0 ==
    /\ Len(dlist0) = 2
    /\ dlist0[1][1] # dlist0[2][1]
    /\ \A i \in 1..2 : 10 * dlist0[i][2] <= Width(area)
                       /\ 10 * dlist0[i][2] <= Height(area)

\* C8: on few small discs with distinct centres on a large area,
\* process_list reaches a pass without change and returns.
C8_Claim == Sparse0 ~> (pc = "done")

(***************************************************************************)
(* uncollide                                                               *)
(***************************************************************************)
Tol == 16

Coincident0 == dlist0[1][1] = dlist0[2][1]

RSum0 == dlist0[1][2] + dlist0[2][2]

L0 == Dist(dlist0[1], dlist0[2])

L1 == Dist(dlist[1], dlist[2])

\* the displacement of disc i by the call
Shift(i) == <<dlist[i][1][1] - dlist0[i][1][1],
              dlist[i][1][2] - dlist0[i][1][2]>>

Opposite == Shift(1)[1] = -Shift(2)[1] /\ Shift(1)[2] = -Shift(2)[2]

Overlapping0 == pc # "uncollide" /\ ~Coincident0 /\ RSum0 > L0

C6_Claim ==
    pc # "uncollide" /\ Coincident0 /\ RSum0 > 0 =>
        pc = "raised" /\ err = "DegenerateInputError" /\ dlist = dlist0

\* C6: on two discs with the same centre and a positive sum of radii
\* uncollide raises ZeroDivisionError, after the draw and before any disc is
\* moved.
C6_RaisesZeroDivision ==
    pc # "uncollide" /\ Coincident0 /\ RSum0 > 0 =>
        /\ pc = "raised"
        /\ err = "ZeroDivisionError"
        /\ dlist = dlist0
        /\ draws = 1

C6_Witness ==
    pc = "raised" /\ Coincident0 /\ RSum0 > 0 /\ dlist0[1][2] # dlist0[2][2]

(***************************************************************************)
(* push2area                                                               *)
(***************************************************************************)
PushedRight ==
    /\ Inside(dlist[1], area)
    /\ rets = <<~Inside(dlist0[1], area)>>

\* C5 as stated: on an area wider and higher than the diameter of the disc,
\* push2area leaves the disc inside the area and returns True exactly when
\* the disc was not inside.
C5_Claim ==
    /\ pc = "returned"
    /\ Width(area) > 2 * dlist0[1][2]
    /\ Height(area) > 2 * dlist0[1][2]
    => PushedRight

\* C5: on an area at least three radii wide and high, push2area leaves the
\* disc inside the area and returns True exactly when the disc was not
\* inside.
C5_ContainsWithinThreeRadii ==
    /\ pc = "returned"
    /\ Width(area) >= 3 * dlist0[1][2]
    /\ Height(area) >= 3 * dlist0[1][2]
    => PushedRight

C5_Witness ==
    /\ pc = "returned"
    /\ Width(area) = 3 * dlist0[1][2]
    /\ ~Inside(dlist0[1], area)
    /\ Len(ks) = 2
    /\ ks[1] = Lit(2, 1)

====
